---- MODULE Spec2Model ----
(***************************************************************************)
(* Model of the call-recording fulfillment pipeline: the express POST      *)
(* handler (admin.js, second half), the InContact Admin wrapper            *)
(* (admin.js), the Google STT / sentiment wrapper (sentiment.js) and the   *)
(* Google Cloud Storage wrapper (gcstorage.js).                            *)
(*                                                                         *)
(* Node runs one callback at a time and drains the promise (microtask)     *)
(* queue before it takes the next I/O event, so one action of the model is *)
(* one I/O event (an arriving request, an HTTP response, a stream 'finish' *)
(* or 'error') together with every promise continuation it triggers.  The  *)
(* order in which one such event starts remote operations is kept in the   *)
(* per-job log ops.                                                        *)
(***************************************************************************)
EXTENDS Integers, Sequences, FiniteSets

(* ------------------------------------------------------------------ *)
(* Bounds                                                               *)
(* ------------------------------------------------------------------ *)

\* Number of requests (jobs) the listener receives in a run.
NumJobs == 2

Jobs == 1..NumJobs

(* ------------------------------------------------------------------ *)
(* Inputs and the answers of the remote services                        *)
(* ------------------------------------------------------------------ *)

\* Bodies of the inbound POST: { contactId, fileName }.
Requests ==
  { [contactId |-> "c1", fileName |-> "f1"],
    [contactId |-> "c2", fileName |-> "f2"] }

\* Bodies the j-th request can have.  The two contacts are interchangeable,
\* so the first request is taken to be the one for c1; a later request is
\* for the same contact again or for the other one.
Arrivals(j) == IF j = 1 THEN { b \in Requests : b.contactId = "c1" } ELSE Requests

NoReq == [contactId |-> "", fileName |-> ""]

\* A field that is present and truthy in a JSON object whose fields are strings.
Truthy(json, f) == f \in DOMAIN json /\ json[f] # ""

\* The auth server issues a new token on every request: the token and base
\* uri it gives to the n-th token request of job j.
IssuedToken(j, n) ==
  CASE j = 1 /\ n = 1 -> [access_token |-> "t11", resource_server_base_uri |-> "u1"]
    [] j = 1 /\ n = 2 -> [access_token |-> "t12", resource_server_base_uri |-> "u2"]
    [] j = 2 /\ n = 1 -> [access_token |-> "t21", resource_server_base_uri |-> "u2"]
    [] j = 2 /\ n = 2 -> [access_token |-> "t22", resource_server_base_uri |-> "u1"]
    [] n = 1           -> [access_token |-> "t31", resource_server_base_uri |-> "u1"]
    [] OTHER           -> [access_token |-> "t32", resource_server_base_uri |-> "u2"]

\* Answers of the token endpoint to the n-th token request of job j: a
\* refused request, bodies with a field missing or empty, a well-formed body.
TokenResponses(j, n) ==
  { [ok |-> FALSE, json |-> [error |-> "denied"]],
    [ok |-> TRUE,  json |-> [access_token |-> IssuedToken(j, n).access_token]],
    [ok |-> TRUE,  json |-> [access_token |-> "",
                             resource_server_base_uri |-> IssuedToken(j, n).resource_server_base_uri]],
    [ok |-> TRUE,  json |-> IssuedToken(j, n)] }

\* Base64 text of the recording stored on the platform under a file name.
FileContent(fileName) ==
  CASE fileName = "f1" -> "QQ=="
    [] fileName = "f2" -> "Qg=="
    [] OTHER -> ""

\* Answers of the file endpoint to GET files?fileName=f.
FileResponses(fileName) ==
  { [ok |-> FALSE, json |-> [error |-> "denied"]],
    [ok |-> TRUE,  json |-> [error |-> "none"]],
    [ok |-> TRUE,  json |-> [files |-> [fileName |-> fileName]]],
    [ok |-> TRUE,  json |-> [files |-> [fileName |-> fileName, file |-> FileContent(fileName)]]] }

\* Text the recognizer hears in a recording.
Recognize(audio) ==
  CASE audio = "QQ==" -> "hello"
    [] audio = "Qg==" -> "bye"
    [] OTHER -> ""

\* Answers of the recognizer to a recording.
SttResponses(audio) ==
  { [ok |-> FALSE, json |-> [error |-> "denied"]],
    [ok |-> TRUE,  json |-> [error |-> "none"]],
    [ok |-> TRUE,  json |-> [results |-> << >>]],
    [ok |-> TRUE,  json |-> [results |-> << [alternatives |-> << >>] >>]],
    [ok |-> TRUE,  json |-> [results |-> << [alternatives |-> << [confidence |-> "1"] >>] >>]],
    [ok |-> TRUE,  json |-> [results |-> << [alternatives |-> << [transcript |-> ""] >>] >>]],
    [ok |-> TRUE,  json |-> [results |-> << [alternatives |-> << [transcript |-> Recognize(audio)] >>] >>]] }

\* Score the sentiment service gives a text.
Score(text) ==
  CASE text = "hello" -> [magnitude |-> 1, score |-> 1]
    [] text = "bye"   -> [magnitude |-> 2, score |-> 0]
    [] OTHER          -> [magnitude |-> 0, score |-> 0]

\* Answers of the sentiment service to a text.
SntResponses(text) ==
  { [ok |-> FALSE, json |-> [error |-> "denied"]],
    [ok |-> TRUE,  json |-> [language |-> "en"]],
    [ok |-> TRUE,  json |-> [documentSentiment |-> Score(text)]] }

\* Answers of the file endpoint to DELETE files?fileName=f.
RemoveResponses ==
  { [ok |-> FALSE, statusText |-> "Not Found"],
    [ok |-> TRUE,  statusText |-> "OK"] }

(* ------------------------------------------------------------------ *)
(* Pure conversions                                                     *)
(* ------------------------------------------------------------------ *)

\* Buffer.from(audio, 'base64'): the bytes a base64 text stands for.
Base64Decode(s) ==
  CASE s = "QQ==" -> "A"
    [] s = "Qg==" -> "B"
    [] OTHER -> ""

\* JSON.stringify of a documentSentiment object.
Stringify(snt) ==
  CASE snt = [magnitude |-> 1, score |-> 1] -> "{magnitude:1,score:1}"
    [] snt = [magnitude |-> 2, score |-> 0] -> "{magnitude:2,score:0}"
    [] OTHER -> "{magnitude:0,score:0}"

\* Blob names built by upload.
DirName(contactId)   == <<contactId, "/">>
AudioName(contactId) == DirName(contactId) \o <<contactId, ".wav">>
TransName(contactId) == DirName(contactId) \o <<contactId, ".txt">>
SntName(contactId)   == DirName(contactId) \o <<contactId, ".json">>

BlobNames ==
  UNION { {AudioName(r.contactId), TransName(r.contactId), SntName(r.contactId)} : r \in Requests }

(* ------------------------------------------------------------------ *)
(* Response checks of the REST wrappers                                 *)
(* ------------------------------------------------------------------ *)

\* A _getToken that rejects only a body missing both fields.
GetTokenOk_eitherField(r) ==
  /\ r.ok
  /\ \/ Truthy(r.json, "access_token")
     \/ Truthy(r.json, "resource_server_base_uri")

\* Admin._getToken: the response is accepted.
GetTokenOk(r) ==
  /\ r.ok
  /\ Truthy(r.json, "access_token")
  /\ Truthy(r.json, "resource_server_base_uri")

\* Admin._getFile: the response is accepted.  The info log line reads
\* json.files.file.length, which throws inside the then-callback when the
\* files object has no file field.
GetFileOk(r) ==
  /\ r.ok
  /\ "files" \in DOMAIN r.json
  /\ "file" \in DOMAIN r.json.files

\* A _stt that tests the transcript field for presence only.
SttOk_emptyTranscript(r) ==
  /\ r.ok
  /\ "results" \in DOMAIN r.json
  /\ Len(r.json.results) > 0
  /\ "alternatives" \in DOMAIN r.json.results[1]
  /\ Len(r.json.results[1].alternatives) > 0
  /\ "transcript" \in DOMAIN r.json.results[1].alternatives[1]

\* Sentiment._stt: the response is accepted.
SttOk(r) ==
  /\ r.ok
  /\ "results" \in DOMAIN r.json
  /\ Len(r.json.results) > 0
  /\ "alternatives" \in DOMAIN r.json.results[1]
  /\ Len(r.json.results[1].alternatives) > 0
  /\ Truthy(r.json.results[1].alternatives[1], "transcript")

\* Sentiment._analyze: the response is accepted.
AnalyzeOk(r) ==
  /\ r.ok
  /\ "documentSentiment" \in DOMAIN r.json

\* Admin._removeFile: the response is accepted.
RemoveFileOk(r) == r.ok

(* ------------------------------------------------------------------ *)
(* State                                                                *)
(* ------------------------------------------------------------------ *)

VARIABLES
  req,        \* req[j]: body of the request of job j (NoReq before it arrives)
  resp,       \* resp[j]: what the listener answered to the caller of job j
  pc,         \* pc[j]: the pending remote call of the handler's promise chain
  audio,      \* audio[j]: the handler's local `audio`
  upload,     \* upload[j]: the promise returned by storage.upload, and the
              \* transcript and sentiment parameters its callbacks close over
  trans,      \* trans[j]: the promise of the transcript _save
  snt,        \* snt[j]: the promise of the sentiment _save
  rm,         \* rm[j]: the pending remote call of admin.remove's chain
  ops,        \* ops[j]: remote operations of job j, in the order they were started
  hist,       \* hist[j]: stage transitions of job j, in the order they happened
  errs,       \* errs[j][src]: error-level log entries "contactId:<id> <src> - ..." of job j
  unhandled,  \* rejected promises that have no rejection handler
  bucket,     \* bucket[name]: the blob stored under name
  unit        \* one call of a REST wrapper on its own: the wrapper, the response
              \* fetch gave it, and how its promise settled

vars == <<req, resp, pc, audio, upload, trans, snt, rm, ops, hist, errs, unhandled, bucket, unit>>

\* The variables of the jobs.
jobVars == <<req, resp, pc, audio, upload, trans, snt, rm, ops, hist, errs, unhandled, bucket>>

Sources ==
  { "_getToken", "_getFile", "_removeFile", "get", "remove",
    "_stt", "_analyze", "process", "_save", "_upload", "webserver" }

NoAck  == [status |-> 0, body |-> "", ended |-> FALSE]
NoBlob == [content |-> "", by |-> 0]
NoUpload == [st |-> "none", transcript |-> "", sentiment |-> ""]
NoUnit == [fn |-> "none", r |-> [ok |-> FALSE, json |-> << >>], st |-> "none", value |-> << >>]

\* No request has arrived.
InitJobs ==
  /\ req = [j \in Jobs |-> NoReq]
  /\ resp = [j \in Jobs |-> NoAck]
  /\ pc = [j \in Jobs |-> "idle"]
  /\ audio = [j \in Jobs |-> ""]
  /\ upload = [j \in Jobs |-> NoUpload]
  /\ trans = [j \in Jobs |-> "none"]
  /\ snt = [j \in Jobs |-> "none"]
  /\ rm = [j \in Jobs |-> "none"]
  /\ ops = [j \in Jobs |-> << >>]
  /\ hist = [j \in Jobs |-> << >>]
  /\ errs = [j \in Jobs |-> [s \in Sources |-> 0]]
  /\ unhandled = {}
  /\ bucket = [n \in BlobNames |-> NoBlob]

Init == InitJobs /\ unit = NoUnit

(* ------------------------------------------------------------------ *)
(* Bookkeeping                                                          *)
(* ------------------------------------------------------------------ *)

\* A remote operation that has just been started, with what was sent.
Op(name, args) == [op |-> name, st |-> "pending", a |-> args, ret |-> << >>]

\* The log after the pending operation `name` got its outcome and its answer.
Settle(log, name, outcome, answer) ==
  [i \in 1..Len(log) |->
     IF log[i].op = name /\ log[i].st = "pending"
       THEN [log[i] EXCEPT !.st = outcome, !.ret = answer]
       ELSE log[i]]

\* logger.error once from each of the sources srcs.
LogErrors(e, srcs) == [s \in Sources |-> IF s \in srcs THEN e[s] + 1 ELSE e[s]]

\* The operations named `name` in a log.
OpsOf(log, name) == { i \in 1..Len(log) : log[i].op = name }

(* ------------------------------------------------------------------ *)
(* The handler's promise chain: admin.get, sentiment.process, upload    *)
(* ------------------------------------------------------------------ *)

\* The chain of the POST handler rejects: the catch blocks on the way log
\* (srcs) and the handler's own catch logs 'webserver' and ends the chain.
ChainFails(j, name, srcs) ==
  /\ ops' = [ops EXCEPT ![j] = Settle(@, name, "err", << >>)]
  /\ errs' = [errs EXCEPT ![j] = LogErrors(@, srcs \cup {"webserver"})]
  /\ hist' = [hist EXCEPT ![j] = Append(@, "FAILED")]
  /\ pc' = [pc EXCEPT ![j] = "failed"]

\* Receive with admin.get not waiting for the token: the file request is
\* sent together with the token request.
Receive_eagerFetch(j, body) ==
  /\ pc[j] = "idle"
  /\ \A k \in Jobs : k < j => pc[k] # "idle"
  /\ req' = [req EXCEPT ![j] = body]
  /\ resp' = [resp EXCEPT ![j] = [status |-> 200, body |-> "", ended |-> TRUE]]
  /\ ops' = [ops EXCEPT ![j] =
       << [Op("ack", << >>) EXCEPT !.st = "ok"], Op("token", << >>),
          Op("fetch", <<"", "", body.fileName>>) >>]
  /\ hist' = [hist EXCEPT ![j] = Append(@, "RECEIVED")]
  /\ pc' = [pc EXCEPT ![j] = "token"]
  /\ UNCHANGED <<audio, upload, trans, snt, rm, errs, unhandled, bucket, unit>>

\* Receive with the answer to the caller sent after admin.get was called.
Receive_ackLast(j, body) ==
  /\ pc[j] = "idle"
  /\ \A k \in Jobs : k < j => pc[k] # "idle"
  /\ req' = [req EXCEPT ![j] = body]
  /\ resp' = [resp EXCEPT ![j] = [status |-> 200, body |-> "", ended |-> TRUE]]
  /\ ops' = [ops EXCEPT ![j] = << Op("token", << >>), [Op("ack", << >>) EXCEPT !.st = "ok"] >>]
  /\ hist' = [hist EXCEPT ![j] = Append(@, "RECEIVED")]
  /\ pc' = [pc EXCEPT ![j] = "token"]
  /\ UNCHANGED <<audio, upload, trans, snt, rm, errs, unhandled, bucket, unit>>

\* app.post handler: a request arrives.  The listener answers 200 with an
\* empty body, then admin.get sends the token request.
Receive(j, body) ==
  /\ pc[j] = "idle"
  /\ \A k \in Jobs : k < j => pc[k] # "idle"
  /\ req' = [req EXCEPT ![j] = body]
  /\ resp' = [resp EXCEPT ![j] = [status |-> 200, body |-> "", ended |-> TRUE]]
  /\ ops' = [ops EXCEPT ![j] = << [Op("ack", << >>) EXCEPT !.st = "ok"], Op("token", << >>) >>]
  /\ hist' = [hist EXCEPT ![j] = Append(@, "RECEIVED")]
  /\ pc' = [pc EXCEPT ![j] = "token"]
  /\ UNCHANGED <<audio, upload, trans, snt, rm, errs, unhandled, bucket, unit>>

\* Admin.get: the token request of admin.get is answered; on success
\* _getFile sends the file request with the token and uri just received.
GetTokenDone(j, r) ==
  /\ pc[j] = "token"
  /\ IF GetTokenOk(r)
       THEN /\ ops' = [ops EXCEPT ![j] =
                 Append(Settle(@, "token", "ok", <<r.json.access_token, r.json.resource_server_base_uri>>),
                        Op("fetch", <<r.json.access_token, r.json.resource_server_base_uri, req[j].fileName>>))]
            /\ hist' = [hist EXCEPT ![j] = Append(@, "TOKEN_ACQUIRED")]
            /\ pc' = [pc EXCEPT ![j] = "fetch"]
            /\ UNCHANGED errs
       ELSE ChainFails(j, "token", {"_getToken", "get"})
  /\ UNCHANGED <<req, resp, audio, upload, trans, snt, rm, unhandled, bucket, unit>>

\* GetFileDone with a refused file request sent once more.
GetFileDone_retry(j, r) ==
  /\ pc[j] = "fetch"
  /\ IF GetFileOk(r)
       THEN /\ audio' = [audio EXCEPT ![j] = r.json.files.file]
            /\ ops' = [ops EXCEPT ![j] =
                 Append(Settle(@, "fetch", "ok", << >>), Op("stt", <<r.json.files.file>>))]
            /\ hist' = [hist EXCEPT ![j] = Append(@, "FILE_FETCHED")]
            /\ pc' = [pc EXCEPT ![j] = "stt"]
            /\ UNCHANGED errs
       ELSE IF Cardinality(OpsOf(ops[j], "fetch")) < 2
              THEN /\ ops' = [ops EXCEPT ![j] =
                        Append(Settle(@, "fetch", "err", << >>),
                               Op("fetch", ops[j][Len(ops[j])].a))]
                   /\ errs' = [errs EXCEPT ![j] = LogErrors(@, {"_getFile"})]
                   /\ UNCHANGED <<audio, hist, pc>>
              ELSE /\ ChainFails(j, "fetch", {"_getFile", "get"})
                   /\ UNCHANGED audio
  /\ UNCHANGED <<req, resp, upload, trans, snt, rm, unhandled, bucket, unit>>

\* GetFileDone with `audio` declared outside the handler, one variable for
\* all requests.
GetFileDone_sharedAudio(j, r) ==
  /\ pc[j] = "fetch"
  /\ IF GetFileOk(r)
       THEN /\ audio' = [k \in Jobs |-> r.json.files.file]
            /\ ops' = [ops EXCEPT ![j] =
                 Append(Settle(@, "fetch", "ok", << >>), Op("stt", <<r.json.files.file>>))]
            /\ hist' = [hist EXCEPT ![j] = Append(@, "FILE_FETCHED")]
            /\ pc' = [pc EXCEPT ![j] = "stt"]
            /\ UNCHANGED errs
       ELSE /\ ChainFails(j, "fetch", {"_getFile", "get"})
            /\ UNCHANGED audio
  /\ UNCHANGED <<req, resp, upload, trans, snt, rm, unhandled, bucket, unit>>

\* Admin._getFile: the file request is answered; on success the handler
\* keeps json.file in `audio` and sentiment.process sends it to the recognizer.
GetFileDone(j, r) ==
  /\ pc[j] = "fetch"
  /\ IF GetFileOk(r)
       THEN /\ audio' = [audio EXCEPT ![j] = r.json.files.file]
            /\ ops' = [ops EXCEPT ![j] =
                 Append(Settle(@, "fetch", "ok", << >>), Op("stt", <<r.json.files.file>>))]
            /\ hist' = [hist EXCEPT ![j] = Append(@, "FILE_FETCHED")]
            /\ pc' = [pc EXCEPT ![j] = "stt"]
            /\ UNCHANGED errs
       ELSE /\ ChainFails(j, "fetch", {"_getFile", "get"})
            /\ UNCHANGED audio
  /\ UNCHANGED <<req, resp, upload, trans, snt, rm, unhandled, bucket, unit>>

\* SttDone with a refused answer logged by _stt's catch and not rethrown
\* into a chain that settles: the handler's chain stays pending for ever.
SttDone_hangs(j, r) ==
  /\ pc[j] = "stt"
  /\ IF SttOk(r)
       THEN /\ ops' = [ops EXCEPT ![j] =
                 Append(Settle(@, "stt", "ok", << >>),
                        Op("analyze", <<r.json.results[1].alternatives[1].transcript>>))]
            /\ hist' = [hist EXCEPT ![j] = Append(@, "TRANSCRIBED")]
            /\ pc' = [pc EXCEPT ![j] = "analyze"]
            /\ UNCHANGED errs
       ELSE /\ ops' = [ops EXCEPT ![j] = Settle(@, "stt", "err", << >>)]
            /\ errs' = [errs EXCEPT ![j] = LogErrors(@, {"_stt"})]
            /\ pc' = [pc EXCEPT ![j] = "hung"]
            /\ UNCHANGED hist
  /\ UNCHANGED <<req, resp, audio, upload, trans, snt, rm, unhandled, bucket, unit>>

\* Sentiment._stt: the recognizer answers; on success process sends the
\* transcript to the sentiment service.
SttDone(j, r) ==
  /\ pc[j] = "stt"
  /\ IF SttOk(r)
       THEN /\ ops' = [ops EXCEPT ![j] =
                 Append(Settle(@, "stt", "ok", << >>),
                        Op("analyze", <<r.json.results[1].alternatives[1].transcript>>))]
            /\ hist' = [hist EXCEPT ![j] = Append(@, "TRANSCRIBED")]
            /\ pc' = [pc EXCEPT ![j] = "analyze"]
            /\ UNCHANGED errs
       ELSE ChainFails(j, "stt", {"_stt", "process"})
  /\ UNCHANGED <<req, resp, audio, upload, trans, snt, rm, unhandled, bucket, unit>>

\* The text the _analyze call of job j was given (its parameter `text`).
AnalyzedText(j) ==
  IF OpsOf(ops[j], "analyze") = {} THEN ""
  ELSE ops[j][CHOOSE i \in OpsOf(ops[j], "analyze") : TRUE].a[1]

\* AnalyzeDone with the handler's catch placed before the upload step: a
\* failed analysis is logged and the upload is started all the same.
AnalyzeDone_uploadAnyway(j, r) ==
  /\ pc[j] = "analyze"
  /\ ops' = [ops EXCEPT ![j] =
       Append(Settle(@, "analyze", IF AnalyzeOk(r) THEN "ok" ELSE "err", << >>),
              Op("wav", <<AudioName(req[j].contactId), Base64Decode(audio[j])>>))]
  /\ upload' = [upload EXCEPT ![j] =
       [st |-> "pending", transcript |-> AnalyzedText(j),
        sentiment |-> IF AnalyzeOk(r) THEN Stringify(r.json.documentSentiment) ELSE ""]]
  /\ errs' = [errs EXCEPT ![j] =
       IF AnalyzeOk(r) THEN @ ELSE LogErrors(@, {"_analyze", "process", "webserver"})]
  /\ hist' = [hist EXCEPT ![j] = Append(@, "ANALYZED")]
  /\ pc' = [pc EXCEPT ![j] = "wav"]
  /\ UNCHANGED <<req, resp, audio, trans, snt, rm, unhandled, bucket, unit>>

\* AnalyzeDone with the transcript and the sentiment handed to upload in
\* each other's place.
AnalyzeDone_swappedArgs(j, r) ==
  /\ pc[j] = "analyze"
  /\ IF AnalyzeOk(r)
       THEN LET result == [transcript |-> AnalyzedText(j), sentiment |-> r.json.documentSentiment]
            IN /\ ops' = [ops EXCEPT ![j] =
                    Append(Settle(@, "analyze", "ok", << >>),
                           Op("wav", <<AudioName(req[j].contactId), Base64Decode(audio[j])>>))]
               /\ upload' = [upload EXCEPT ![j] =
                    [st |-> "pending", transcript |-> Stringify(result.sentiment),
                     sentiment |-> result.transcript]]
               /\ hist' = [hist EXCEPT ![j] = Append(@, "ANALYZED")]
               /\ pc' = [pc EXCEPT ![j] = "wav"]
               /\ UNCHANGED errs
       ELSE /\ ChainFails(j, "analyze", {"_analyze", "process"})
            /\ UNCHANGED upload
  /\ UNCHANGED <<req, resp, audio, trans, snt, rm, unhandled, bucket, unit>>

\* AnalyzeDone with a lock per contactId: the upload waits while another job
\* with the same contactId is writing.
AnalyzeDone_keyedLock(j, r) ==
  /\ pc[j] = "analyze"
  /\ \A k \in Jobs \ {j} :
       req[k].contactId = req[j].contactId =>
         pc[k] # "wav" /\ trans[k] # "pending" /\ snt[k] # "pending"
  /\ IF AnalyzeOk(r)
       THEN LET result == [transcript |-> AnalyzedText(j), sentiment |-> r.json.documentSentiment]
            IN /\ ops' = [ops EXCEPT ![j] =
                    Append(Settle(@, "analyze", "ok", << >>),
                           Op("wav", <<AudioName(req[j].contactId), Base64Decode(audio[j])>>))]
               /\ upload' = [upload EXCEPT ![j] =
                    [st |-> "pending", transcript |-> result.transcript,
                     sentiment |-> Stringify(result.sentiment)]]
               /\ hist' = [hist EXCEPT ![j] = Append(@, "ANALYZED")]
               /\ pc' = [pc EXCEPT ![j] = "wav"]
               /\ UNCHANGED errs
       ELSE /\ ChainFails(j, "analyze", {"_analyze", "process"})
            /\ UNCHANGED upload
  /\ UNCHANGED <<req, resp, audio, trans, snt, rm, unhandled, bucket, unit>>

\* Sentiment._analyze: the sentiment service answers; on success the handler
\* calls storage.upload, which starts the audio write.
AnalyzeDone(j, r) ==
  /\ pc[j] = "analyze"
  /\ IF AnalyzeOk(r)
       THEN LET result == [transcript |-> AnalyzedText(j), sentiment |-> r.json.documentSentiment]
            IN /\ ops' = [ops EXCEPT ![j] =
                    Append(Settle(@, "analyze", "ok", << >>),
                           Op("wav", <<AudioName(req[j].contactId), Base64Decode(audio[j])>>))]
               /\ upload' = [upload EXCEPT ![j] =
                    [st |-> "pending", transcript |-> result.transcript,
                     sentiment |-> Stringify(result.sentiment)]]
               /\ hist' = [hist EXCEPT ![j] = Append(@, "ANALYZED")]
               /\ pc' = [pc EXCEPT ![j] = "wav"]
               /\ UNCHANGED errs
       ELSE /\ ChainFails(j, "analyze", {"_analyze", "process"})
            /\ UNCHANGED upload
  /\ UNCHANGED <<req, resp, audio, trans, snt, rm, unhandled, bucket, unit>>

(* ------------------------------------------------------------------ *)
(* GCStorage.upload and its three _save calls                           *)
(* ------------------------------------------------------------------ *)

\* The blob a pending write of job j is writing.
Written(j, name) == ops[j][CHOOSE i \in OpsOf(ops[j], name) : TRUE].a

\* The bucket after a write of job j has finished.
Stored(j, name) ==
  [bucket EXCEPT ![Written(j, name)[1]] = [content |-> Written(j, name)[2], by |-> j]]

\* SaveAudioFinish with the transcript _save returned from upload's first
\* callback: upload's promise stays pending until the transcript is written.
SaveAudioFinish_awaitTrans(j) ==
  /\ pc[j] = "wav"
  /\ bucket' = Stored(j, "wav")
  /\ ops' = [ops EXCEPT ![j] =
       Append(Settle(@, "wav", "ok", << >>),
              Op("txt", <<TransName(req[j].contactId), upload[j].transcript>>))]
  /\ trans' = [trans EXCEPT ![j] = "pending"]
  /\ pc' = [pc EXCEPT ![j] = "txt"]
  /\ UNCHANGED <<req, resp, audio, upload, snt, rm, hist, errs, unhandled, unit>>

\* SaveAudioFinish with upload's two callbacks in each other's place: the
\* sentiment write is started before the transcript write.
SaveAudioFinish_sntFirst(j) ==
  /\ pc[j] = "wav"
  /\ bucket' = Stored(j, "wav")
  /\ ops' = [ops EXCEPT ![j] =
       Settle(@, "wav", "ok", << >>)
         \o << Op("json", <<SntName(req[j].contactId), upload[j].sentiment>>),
               Op("txt", <<TransName(req[j].contactId), upload[j].transcript>>),
               Op("token", << >>) >>]
  /\ trans' = [trans EXCEPT ![j] = "pending"]
  /\ snt' = [snt EXCEPT ![j] = "pending"]
  /\ upload' = [upload EXCEPT ![j].st = "resolved"]
  /\ hist' = [hist EXCEPT ![j] = Append(@, "PERSISTED")]
  /\ rm' = [rm EXCEPT ![j] = "token"]
  /\ pc' = [pc EXCEPT ![j] = "done"]
  /\ UNCHANGED <<req, resp, audio, errs, unhandled, unit>>

\* 'finish' of the audio write.  upload's first callback starts the
\* transcript write and returns nothing, its second callback starts the
\* sentiment write and returns nothing, so upload's promise resolves; the
\* handler's last callback calls admin.remove, which sends its token request,
\* and returns nothing, so the handler's chain ends.
SaveAudioFinish(j) ==
  /\ pc[j] = "wav"
  /\ bucket' = Stored(j, "wav")
  /\ ops' = [ops EXCEPT ![j] =
       Settle(@, "wav", "ok", << >>)
         \o << Op("txt", <<TransName(req[j].contactId), upload[j].transcript>>),
               Op("json", <<SntName(req[j].contactId), upload[j].sentiment>>),
               Op("token", << >>) >>]
  /\ trans' = [trans EXCEPT ![j] = "pending"]
  /\ snt' = [snt EXCEPT ![j] = "pending"]
  /\ upload' = [upload EXCEPT ![j].st = "resolved"]
  /\ hist' = [hist EXCEPT ![j] = Append(@, "PERSISTED")]
  /\ rm' = [rm EXCEPT ![j] = "token"]
  /\ pc' = [pc EXCEPT ![j] = "done"]
  /\ UNCHANGED <<req, resp, audio, errs, unhandled, unit>>

\* SaveAudioError with upload's catch not rethrowing: upload's promise
\* resolves and the handler goes on to admin.remove.
SaveAudioError_swallowed(j) ==
  /\ pc[j] = "wav"
  /\ ops' = [ops EXCEPT ![j] = Append(Settle(@, "wav", "err", << >>), Op("token", << >>))]
  /\ errs' = [errs EXCEPT ![j] = LogErrors(@, {"_save", "_upload"})]
  /\ upload' = [upload EXCEPT ![j].st = "resolved"]
  /\ hist' = [hist EXCEPT ![j] = Append(@, "PERSISTED")]
  /\ rm' = [rm EXCEPT ![j] = "token"]
  /\ pc' = [pc EXCEPT ![j] = "done"]
  /\ UNCHANGED <<req, resp, audio, trans, snt, unhandled, bucket, unit>>

\* 'error' of the audio write: _save logs and rejects, upload's catch logs
\* and rethrows, the handler's catch logs.
SaveAudioError(j) ==
  /\ pc[j] = "wav"
  /\ ChainFails(j, "wav", {"_save", "_upload"})
  /\ upload' = [upload EXCEPT ![j].st = "rejected"]
  /\ UNCHANGED <<req, resp, audio, trans, snt, rm, unhandled, bucket, unit>>

\* 'finish' of the transcript write.
SaveTransFinish(j) ==
  /\ trans[j] = "pending"
  /\ bucket' = Stored(j, "txt")
  /\ ops' = [ops EXCEPT ![j] = Settle(@, "txt", "ok", << >>)]
  /\ trans' = [trans EXCEPT ![j] = "resolved"]
  /\ UNCHANGED <<req, resp, pc, audio, upload, snt, rm, hist, errs, unhandled, unit>>

\* 'error' of the transcript write: _save logs and rejects a promise that
\* nothing waits for.
SaveTransError(j) ==
  /\ trans[j] = "pending"
  /\ ops' = [ops EXCEPT ![j] = Settle(@, "txt", "err", << >>)]
  /\ errs' = [errs EXCEPT ![j] = LogErrors(@, {"_save"})]
  /\ trans' = [trans EXCEPT ![j] = "rejected"]
  /\ unhandled' = unhandled \cup {<<j, "txt">>}
  /\ UNCHANGED <<req, resp, pc, audio, upload, snt, rm, hist, bucket, unit>>

\* 'finish' of the sentiment write.
SaveSntFinish(j) ==
  /\ snt[j] = "pending"
  /\ bucket' = Stored(j, "json")
  /\ ops' = [ops EXCEPT ![j] = Settle(@, "json", "ok", << >>)]
  /\ snt' = [snt EXCEPT ![j] = "resolved"]
  /\ UNCHANGED <<req, resp, pc, audio, upload, trans, rm, hist, errs, unhandled, unit>>

\* SaveSntError with the logger.error call of _save's 'error' listener left out.
SaveSntError_silent(j) ==
  /\ snt[j] = "pending"
  /\ ops' = [ops EXCEPT ![j] = Settle(@, "json", "err", << >>)]
  /\ snt' = [snt EXCEPT ![j] = "rejected"]
  /\ unhandled' = unhandled \cup {<<j, "json">>}
  /\ UNCHANGED <<req, resp, pc, audio, upload, trans, rm, hist, errs, bucket, unit>>

\* 'error' of the sentiment write: _save logs and rejects a promise that
\* nothing waits for.
SaveSntError(j) ==
  /\ snt[j] = "pending"
  /\ ops' = [ops EXCEPT ![j] = Settle(@, "json", "err", << >>)]
  /\ errs' = [errs EXCEPT ![j] = LogErrors(@, {"_save"})]
  /\ snt' = [snt EXCEPT ![j] = "rejected"]
  /\ unhandled' = unhandled \cup {<<j, "json">>}
  /\ UNCHANGED <<req, resp, pc, audio, upload, trans, rm, hist, bucket, unit>>

(* ------------------------------------------------------------------ *)
(* admin.remove, whose promise the handler drops                        *)
(* ------------------------------------------------------------------ *)

\* RemoveFails with admin.remove returned into the handler's chain: its
\* rejection reaches the handler's catch.
RemoveFails_intoChain(j, name, srcs) ==
  /\ ops' = [ops EXCEPT ![j] = Settle(@, name, "err", << >>)]
  /\ errs' = [errs EXCEPT ![j] = LogErrors(@, srcs \cup {"remove", "webserver"})]
  /\ hist' = [hist EXCEPT ![j] = Append(@, "FAILED")]
  /\ rm' = [rm EXCEPT ![j] = "failed"]
  /\ UNCHANGED unhandled

\* admin.remove rejects: the catch blocks on the way log and rethrow, and
\* the promise remove returned has no handler.
RemoveFails(j, name, srcs) ==
  /\ ops' = [ops EXCEPT ![j] = Settle(@, name, "err", << >>)]
  /\ errs' = [errs EXCEPT ![j] = LogErrors(@, srcs \cup {"remove"})]
  /\ hist' = [hist EXCEPT ![j] = Append(@, "FAILED")]
  /\ rm' = [rm EXCEPT ![j] = "failed"]
  /\ unhandled' = unhandled \cup {<<j, "remove">>}

\* The token and uri the first token request of job j returned.
FirstToken(j) == ops[j][2].ret

\* RemoveTokenDone with the token of admin.get kept and used again for the
\* DELETE.
RemoveTokenDone_cachedToken(j, r) ==
  /\ rm[j] = "token"
  /\ IF GetTokenOk(r)
       THEN /\ ops' = [ops EXCEPT ![j] =
                 Append(Settle(@, "token", "ok", <<r.json.access_token, r.json.resource_server_base_uri>>),
                        Op("delete", <<FirstToken(j)[1], FirstToken(j)[2], req[j].fileName>>))]
            /\ rm' = [rm EXCEPT ![j] = "delete"]
            /\ UNCHANGED <<hist, errs, unhandled>>
       ELSE RemoveFails(j, "token", {"_getToken"})
  /\ UNCHANGED <<req, resp, pc, audio, upload, trans, snt, bucket, unit>>

\* Admin.remove: its token request is answered; on success _removeFile sends
\* the DELETE with the token and uri just received.
RemoveTokenDone(j, r) ==
  /\ rm[j] = "token"
  /\ IF GetTokenOk(r)
       THEN /\ ops' = [ops EXCEPT ![j] =
                 Append(Settle(@, "token", "ok", <<r.json.access_token, r.json.resource_server_base_uri>>),
                        Op("delete", <<r.json.access_token, r.json.resource_server_base_uri, req[j].fileName>>))]
            /\ rm' = [rm EXCEPT ![j] = "delete"]
            /\ UNCHANGED <<hist, errs, unhandled>>
       ELSE RemoveFails(j, "token", {"_getToken"})
  /\ UNCHANGED <<req, resp, pc, audio, upload, trans, snt, bucket, unit>>

\* Admin._removeFile: the DELETE is answered.
RemoveFileDone(j, r) ==
  /\ rm[j] = "delete"
  /\ IF RemoveFileOk(r)
       THEN /\ ops' = [ops EXCEPT ![j] = Settle(@, "delete", "ok", <<r.statusText>>)]
            /\ hist' = [hist EXCEPT ![j] = Append(@, "DELETED")]
            /\ rm' = [rm EXCEPT ![j] = "ok"]
            /\ UNCHANGED <<errs, unhandled>>
       ELSE RemoveFails(j, "delete", {"_removeFile"})
  /\ UNCHANGED <<req, resp, pc, audio, upload, trans, snt, bucket, unit>>

(* ------------------------------------------------------------------ *)
(* Specification                                                        *)
(* ------------------------------------------------------------------ *)

Next ==
  \/ \E j \in Jobs : \E body \in Arrivals(j) : Receive(j, body)
  \/ \E j \in Jobs : \E r \in TokenResponses(j, 1) : GetTokenDone(j, r)
  \/ \E j \in Jobs : \E r \in FileResponses(req[j].fileName) : GetFileDone(j, r)
  \/ \E j \in Jobs : \E r \in SttResponses(audio[j]) : SttDone(j, r)
  \/ \E j \in Jobs : \E r \in SntResponses(AnalyzedText(j)) : AnalyzeDone(j, r)
  \/ \E j \in Jobs : SaveAudioFinish(j)
  \/ \E j \in Jobs : SaveAudioError(j)
  \/ \E j \in Jobs : SaveTransFinish(j)
  \/ \E j \in Jobs : SaveTransError(j)
  \/ \E j \in Jobs : SaveSntFinish(j)
  \/ \E j \in Jobs : SaveSntError(j)
  \/ \E j \in Jobs : \E r \in TokenResponses(j, 2) : RemoveTokenDone(j, r)
  \/ \E j \in Jobs : \E r \in RemoveResponses : RemoveFileDone(j, r)

Spec == Init /\ [][Next]_vars

\* The runs in which every remote call that was started is answered: fetch
\* has no timeout and a write stream ends with 'finish' or 'error'.
FairSpec ==
  /\ Spec
  /\ \A j \in Jobs :
       /\ WF_vars(\E r \in TokenResponses(j, 1) : GetTokenDone(j, r))
       /\ WF_vars(\E r \in FileResponses(req[j].fileName) : GetFileDone(j, r))
       /\ WF_vars(\E r \in SttResponses(audio[j]) : SttDone(j, r))
       /\ WF_vars(\E r \in SntResponses(AnalyzedText(j)) : AnalyzeDone(j, r))
       /\ WF_vars(SaveAudioFinish(j) \/ SaveAudioError(j))
       /\ WF_vars(SaveTransFinish(j) \/ SaveTransError(j))
       /\ WF_vars(SaveSntFinish(j) \/ SaveSntError(j))
       /\ WF_vars(\E r \in TokenResponses(j, 2) : RemoveTokenDone(j, r))
       /\ WF_vars(\E r \in RemoveResponses : RemoveFileDone(j, r))

(* ------------------------------------------------------------------ *)
(* The REST wrappers on their own                                       *)
(* ------------------------------------------------------------------ *)

\* obj with field f set to v, or obj itself when the field is left out.
Absent == "absent"
Opt(obj, f, v) ==
  IF v = Absent THEN obj
  ELSE [x \in DOMAIN obj \cup {f} |-> IF x = f THEN v ELSE obj[x]]

\* Bodies the token endpoint can send: each of the two fields left out,
\* empty, or filled.
TokenBodies ==
  { Opt(Opt([token_type |-> "bearer"], "access_token", a), "resource_server_base_uri", u) :
      a \in {Absent, "", "t1", "t2"}, u \in {Absent, "", "u1", "u2"} }

\* Bodies the file endpoint can send: no files object, or a files object with
\* each of fileName and file left out or filled.
FilesObjects ==
  { Opt(Opt([kind |-> "file"], "fileName", n), "file", c) :
      n \in {Absent, "f1"}, c \in {Absent, "", "QQ==", "Qg=="} }

FileBodies ==
  { [error |-> "none"] } \cup { [files |-> o] : o \in FilesObjects }

\* Bodies the recognizer can send: the path results[0].alternatives[0].transcript
\* broken at every link, an empty transcript, and longer lists.
Alternatives ==
  { Opt([confidence |-> "1"], "transcript", t) : t \in {Absent, "", "hello", "bye"} }

AlternativesLists ==
  { << >> } \cup { <<a>> : a \in Alternatives }
            \cup { <<a, [confidence |-> "0", transcript |-> "other"]>> : a \in Alternatives }

SttResults ==
  { [channelTag |-> "1"] } \cup { [channelTag |-> "1", alternatives |-> l] : l \in AlternativesLists }

ResultsLists ==
  { << >> } \cup { <<x>> : x \in SttResults }
            \cup { <<x, [channelTag |-> "1",
                         alternatives |-> << [confidence |-> "1", transcript |-> "second"] >>]>> :
                   x \in SttResults }

SttBodies ==
  { [error |-> "none"] } \cup { [results |-> l] : l \in ResultsLists }

\* A wrapper and the response fetch resolves with.
UnitCalls ==
  { [fn |-> "_getToken", r |-> [ok |-> k, json |-> b], st |-> "called", value |-> << >>] :
      k \in BOOLEAN, b \in TokenBodies }
  \cup
  { [fn |-> "_getFile", r |-> [ok |-> k, json |-> b], st |-> "called", value |-> << >>] :
      k \in BOOLEAN, b \in FileBodies }
  \cup
  { [fn |-> "_stt", r |-> [ok |-> k, json |-> b], st |-> "called", value |-> << >>] :
      k \in BOOLEAN, b \in SttBodies }

\* Admin._getToken: what the returned promise settles with.
GetTokenResult(r) ==
  IF GetTokenOk(r) THEN [st |-> "ok", value |-> r.json]
  ELSE IF ~r.ok THEN [st |-> "err", value |-> "Response status"]
  ELSE [st |-> "err", value |-> "Missing token and/or uri"]

\* Admin._getFile: what the returned promise settles with.  A files object
\* without a file field passes the test of json.files and then makes the log
\* line throw, which the catch rethrows.
GetFileResult(r) ==
  IF GetFileOk(r) THEN [st |-> "ok", value |-> r.json.files]
  ELSE IF ~r.ok THEN [st |-> "err", value |-> "Response status"]
  ELSE IF "files" \notin DOMAIN r.json THEN [st |-> "err", value |-> "Missing files object"]
  ELSE [st |-> "err", value |-> "TypeError"]

\* Sentiment._stt: what the returned promise settles with.
SttResult(r) ==
  IF SttOk(r) THEN [st |-> "ok", value |-> r.json.results[1].alternatives[1].transcript]
  ELSE IF ~r.ok THEN [st |-> "err", value |-> "Response status"]
  ELSE [st |-> "err", value |-> "Invalid/missing result value"]

Settled(res) == unit' = [unit EXCEPT !.st = res.st, !.value = res.value]

GetTokenReturns ==
  /\ unit.fn = "_getToken"
  /\ unit.st = "called"
  /\ Settled(GetTokenResult(unit.r))
  /\ UNCHANGED jobVars

GetFileReturns ==
  /\ unit.fn = "_getFile"
  /\ unit.st = "called"
  /\ Settled(GetFileResult(unit.r))
  /\ UNCHANGED jobVars

SttReturns ==
  /\ unit.fn = "_stt"
  /\ unit.st = "called"
  /\ Settled(SttResult(unit.r))
  /\ UNCHANGED jobVars

UnitInit == InitJobs /\ unit \in UnitCalls

UnitNext == GetTokenReturns \/ GetFileReturns \/ SttReturns

UnitSpec == UnitInit /\ [][UnitNext]_vars

(* ------------------------------------------------------------------ *)
(* Vocabulary of the properties                                         *)
(* ------------------------------------------------------------------ *)

\* The stage transitions of a job that completes.
Stages ==
  << "RECEIVED", "TOKEN_ACQUIRED", "FILE_FETCHED", "TRANSCRIBED",
     "ANALYZED", "PERSISTED", "DELETED" >>

\* The remote operations of a job that completes, one per stage call:
\* upload is the audio write its promise waits for.
StageOps == << "token", "fetch", "stt", "analyze", "wav", "token", "delete" >>

IsPrefix(s, t) == Len(s) <= Len(t) /\ \A i \in 1..Len(s) : s[i] = t[i]

\* Job j has started (settled with outcome st) an operation named name.
Started(j, name) == OpsOf(ops[j], name) # {}
Ended(j, name, st) == \E i \in OpsOf(ops[j], name) : ops[j][i].st = st

\* Some remote operation of job j has failed.
SomeFailure(j) == \E i \in 1..Len(ops[j]) : ops[j][i].st = "err"

\* Number of error-level log entries of job j.
RECURSIVE SumOver(_, _)
SumOver(f, S) ==
  IF S = {} THEN 0
  ELSE LET x == CHOOSE y \in S : TRUE IN f[x] + SumOver(f, S \ {x})

ErrorEntries(j) == SumOver(errs[j], Sources)

\* The operations of job j that the handler's chain and admin.remove wait
\* for, in the order they were started.
IsStageOp(e) == e.op \in {"token", "fetch", "stt", "analyze", "wav", "delete"}
StageLog(j) == SelectSeq(ops[j], IsStageOp)

(* ------------------------------------------------------------------ *)
(* C1                                                                   *)
(* ------------------------------------------------------------------ *)

\* C1 (as claimed): the DELETE request of a job is issued only after all
\* three artifact writes of that job (.wav, .txt, .json) have finished
\* successfully.
C1_DeleteOnlyAfterAllWrites ==
  \A j \in Jobs :
    Started(j, "delete") =>
      /\ Ended(j, "wav", "ok")
      /\ Ended(j, "txt", "ok")
      /\ Ended(j, "json", "ok")

(* ------------------------------------------------------------------ *)
(* C2                                                                   *)
(* ------------------------------------------------------------------ *)

\* C2: the operations a job waits for are started in the order token, fetch,
\* transcribe, analyze, upload, token, delete, each one only when every
\* earlier one has resolved successfully (upload: when the promise upload
\* returned has resolved), and the stage transitions of the job are a prefix
\* of RECEIVED .. DELETED, optionally ended by FAILED.
C2_StageOrder ==
  \A j \in Jobs :
    /\ IsPrefix([i \in 1..Len(StageLog(j)) |-> StageLog(j)[i].op], StageOps)
    /\ \A i \in 1..(Len(StageLog(j)) - 1) :
         /\ StageLog(j)[i].st = "ok"
         /\ StageLog(j)[i].op = "wav" => upload[j].st = "resolved"
    /\ \/ IsPrefix(hist[j], Stages)
       \/ /\ hist[j] # << >>
          /\ hist[j][Len(hist[j])] = "FAILED"
          /\ IsPrefix(SubSeq(hist[j], 1, Len(hist[j]) - 1), Stages)

\* A job went through every stage.
C2_Witness == \E j \in Jobs : hist[j] = Stages /\ Len(StageLog(j)) = 7

(* ------------------------------------------------------------------ *)
(* C3                                                                   *)
(* ------------------------------------------------------------------ *)

\* The token request of admin.get, the fetch, the transcription or the
\* analysis of job j has failed.
EarlyFailure(j) ==
  \/ Ended(j, "fetch", "err")
  \/ Ended(j, "stt", "err")
  \/ Ended(j, "analyze", "err")
  \/ (Len(ops[j]) >= 2 /\ ops[j][2].op = "token" /\ ops[j][2].st = "err")

\* C3: a job whose token request, fetch, transcription or analysis failed
\* starts no storage write and no delete, and starts nothing after the
\* operation that failed.
C3_EarlyFailureStopsJob ==
  \A j \in Jobs :
    EarlyFailure(j) =>
      /\ ~Started(j, "wav") /\ ~Started(j, "txt") /\ ~Started(j, "json")
      /\ ~Started(j, "delete")
      /\ Cardinality(OpsOf(ops[j], "token")) = 1
      /\ ops[j][Len(ops[j])].st = "err"
      /\ \A n \in BlobNames : bucket[n].by # j

\* The recognizer's answer was refused by _stt and the job ended there.
C3_Witness ==
  \E j \in Jobs : Ended(j, "stt", "err") /\ pc[j] = "failed" /\ errs[j]["_stt"] = 1

(* ------------------------------------------------------------------ *)
(* C4                                                                   *)
(* ------------------------------------------------------------------ *)

\* C4: a request is answered 200 with an empty body before any remote call
\* of its job is started, and the answer is the same in every later state of
\* the job, whatever its outcome.
C4_AckBeforePipeline ==
  \A j \in Jobs :
    IF pc[j] = "idle"
      THEN resp[j] = NoAck /\ ops[j] = << >>
      ELSE /\ resp[j] = [status |-> 200, body |-> "", ended |-> TRUE]
           /\ ops[j][1].op = "ack"
           /\ \A i \in 2..Len(ops[j]) : ops[j][i].op # "ack"

\* One acknowledged job failed and another acknowledged job was deleted.
C4_Witness ==
  \E j, k \in Jobs :
    /\ pc[j] = "failed" /\ resp[j].status = 200
    /\ rm[k] = "ok" /\ resp[k].status = 200

(* ------------------------------------------------------------------ *)
(* C5                                                                   *)
(* ------------------------------------------------------------------ *)

\* C5 (as claimed): whenever one of the three blob writes of a job has
\* failed, the promise returned by upload is rejected.
C5_UploadRejectsOnAnyWriteFailure ==
  \A j \in Jobs :
    (Ended(j, "wav", "err") \/ Ended(j, "txt", "err") \/ Ended(j, "json", "err"))
      => upload[j].st = "rejected"

(* ------------------------------------------------------------------ *)
(* C6                                                                   *)
(* ------------------------------------------------------------------ *)

C7_FreshTokenPerCall ==
  \A j \in Jobs :
    /\ \A i \in OpsOf(ops[j], "fetch") \cup OpsOf(ops[j], "delete") :
         /\ i > 1
         /\ ops[j][i - 1].op = "token"
         /\ ops[j][i - 1].st = "ok"
         /\ ops[j][i - 1].ret = <<ops[j][i].a[1], ops[j][i].a[2]>>
         /\ ops[j][i].a[3] = req[j].fileName
    /\ Started(j, "delete") =>
         /\ Cardinality(OpsOf(ops[j], "token")) = 2
         /\ \E f \in OpsOf(ops[j], "fetch"), d \in OpsOf(ops[j], "delete") :
              f < d /\ f - 1 # d - 1

\* A job's DELETE was answered: it has fetched and deleted with two tokens.
C7_Witness ==
  \E j \in Jobs : Ended(j, "delete", "ok") /\ Ended(j, "fetch", "ok")

(* ------------------------------------------------------------------ *)
(* C8                                                                   *)
(* ------------------------------------------------------------------ *)

\* C8: a job one of whose remote operations has failed has written at least
\* one error-level log entry, as many as the catch blocks and 'error'
\* listeners the failure went through require at the least; a job none of
\* whose operations has failed has written none.
C8_FailuresAreLogged ==
  \A j \in Jobs :
    /\ SomeFailure(j) => ErrorEntries(j) >= 1
    /\ ~SomeFailure(j) => ErrorEntries(j) = 0
    /\ \A i \in 1..Len(ops[j]) :
         ops[j][i].st = "err" =>
           CASE ops[j][i].op = "token"   -> errs[j]["_getToken"] >= 1
             [] ops[j][i].op = "fetch"   -> errs[j]["_getFile"] >= 1
             [] ops[j][i].op = "stt"     -> errs[j]["_stt"] >= 1
             [] ops[j][i].op = "analyze" -> errs[j]["_analyze"] >= 1
             [] ops[j][i].op = "delete"  -> errs[j]["_removeFile"] >= 1
             [] OTHER ->
                  errs[j]["_save"] >=
                    Cardinality({ k \in 1..Len(ops[j]) :
                      ops[j][k].st = "err" /\ ops[j][k].op \in {"wav", "txt", "json"} })

\* One job failed in its sentiment write and logged it; another job ran to
\* the end with no failure and no error entry.
C8_Witness ==
  \E j, k \in Jobs :
    /\ Ended(j, "json", "err") /\ errs[j]["_save"] >= 1
    /\ rm[k] = "ok" /\ trans[k] = "resolved" /\ snt[k] = "resolved" /\ ErrorEntries(k) = 0

(* ------------------------------------------------------------------ *)
(* C9                                                                   *)
(* ------------------------------------------------------------------ *)

\* C9 (as claimed): no rejected promise is left without a handler, and a
\* request that has not arrived yet can still be received.
C9_NoUnhandledRejection ==
  /\ unhandled = {}
  /\ \A j \in Jobs :
       (pc[j] = "idle" /\ \A k \in Jobs : k < j => pc[k] # "idle")
         => \A body \in Arrivals(j) : ENABLED Receive(j, body)

(* ------------------------------------------------------------------ *)
(* C10                                                                  *)
(* ------------------------------------------------------------------ *)

\* C10: a job issues the fetch, the transcription, the analysis, each of
\* the three blob writes and the DELETE at most once each and the token
\* request at most twice, whatever has failed.
C10_NoRetry ==
  \A j \in Jobs :
    /\ \A name \in {"fetch", "stt", "analyze", "wav", "txt", "json", "delete"} :
         Cardinality(OpsOf(ops[j], name)) <= 1
    /\ Cardinality(OpsOf(ops[j], "token")) <= 2

\* A fetch failed and the job ended with that one fetch; another job's
\* DELETE failed after its two token requests.
C10_Witness ==
  \E j, k \in Jobs :
    /\ Ended(j, "fetch", "err") /\ pc[j] = "failed"
    /\ Ended(k, "delete", "err") /\ Cardinality(OpsOf(ops[k], "token")) = 2

(* ------------------------------------------------------------------ *)
(* C11                                                                  *)
(* ------------------------------------------------------------------ *)

\* What the services return for the file of job j.
FetchedAudio(j) == FileContent(req[j].fileName)
ReturnedTranscript(j) == Recognize(FetchedAudio(j))
ReturnedSentiment(j) == Score(ReturnedTranscript(j))

\* Every remote call of job j has been answered with success.
Complete(j) ==
  /\ rm[j] = "ok"
  /\ trans[j] = "resolved"
  /\ snt[j] = "resolved"
  /\ ~SomeFailure(j)

\* Job j has stored exactly the three blobs c/c.wav, c/c.txt and c/c.json
\* with the audio, the transcript and the sentiment, and has issued exactly
\* one delete, for its file.
StoredAndDeleted(j) ==
  LET c == req[j].contactId
      writes == { i \in 1..Len(ops[j]) : ops[j][i].op \in {"wav", "txt", "json"} }
  IN /\ { ops[j][i].a : i \in writes } =
          { << <<c, "/", c, ".wav">>,  Base64Decode(FetchedAudio(j)) >>,
            << <<c, "/", c, ".txt">>,  ReturnedTranscript(j) >>,
            << <<c, "/", c, ".json">>, Stringify(ReturnedSentiment(j)) >> }
     /\ Cardinality(writes) = 3
     /\ \A i \in writes : ops[j][i].st = "ok"
     /\ bucket[<<c, "/", c, ".wav">>].content = Base64Decode(FetchedAudio(j))
     /\ bucket[<<c, "/", c, ".txt">>].content = ReturnedTranscript(j)
     /\ bucket[<<c, "/", c, ".json">>].content = Stringify(ReturnedSentiment(j))
     /\ Cardinality(OpsOf(ops[j], "delete")) = 1
     /\ \A i \in OpsOf(ops[j], "delete") : ops[j][i].a[3] = req[j].fileName

\* C11: a job all of whose remote calls are answered with well-formed
\* success bodies eventually has stored exactly the three blobs c/c.wav,
\* c/c.txt and c/c.json, holding the fetched audio, the transcript and the
\* sentiment the services returned, and has issued exactly one delete, for
\* its file f; and whenever such a job is complete that is what it has done.
C11_SuccessStoresThreeAndDeletes ==
  /\ [](\A j \in Jobs : Complete(j) => StoredAndDeleted(j))
  /\ \A j \in Jobs :
       (pc[j] # "idle") ~> (SomeFailure(j) \/ (Complete(j) /\ StoredAndDeleted(j)))

\* A job ran to the end with no failure and its three blobs are in the bucket.
C11_Witness ==
  \E j \in Jobs :
    /\ Complete(j)
    /\ \A n \in {AudioName(req[j].contactId), TransName(req[j].contactId),
                 SntName(req[j].contactId)} : bucket[n].by = j

(* ------------------------------------------------------------------ *)
(* C12                                                                  *)
(* ------------------------------------------------------------------ *)

\* Everything job j has sent carries its own data: its writes go under its
\* own contactId and hold the audio, transcript and sentiment obtained for
\* its own file, and its fetch and delete carry a token that a token request
\* of j returned and that no other job was given.
OwnData(j) ==
  /\ \A i \in 1..Len(ops[j]) :
       LET e == ops[j][i] IN
         CASE e.op = "stt"     -> e.a = <<FetchedAudio(j)>>
           [] e.op = "analyze" -> e.a = <<ReturnedTranscript(j)>>
           [] e.op = "wav"     -> e.a[1][1] = req[j].contactId
                                  /\ e.a[2] = Base64Decode(FetchedAudio(j))
           [] e.op = "txt"     -> e.a[1][1] = req[j].contactId
                                  /\ e.a[2] = ReturnedTranscript(j)
           [] e.op = "json"    -> e.a[1][1] = req[j].contactId
                                  /\ e.a[2] = Stringify(ReturnedSentiment(j))
           [] e.op \in {"fetch", "delete"} ->
                /\ \E t \in OpsOf(ops[j], "token") : ops[j][t].ret = <<e.a[1], e.a[2]>>
                /\ \A k \in Jobs \ {j} : \A t \in OpsOf(ops[k], "token") :
                     ops[k][t].st = "ok" => ops[k][t].ret[1] # e.a[1]
           [] OTHER -> TRUE
  /\ \A n \in BlobNames : bucket[n].by = j => n[1] = req[j].contactId

\* A step that is not a step of job k changes nothing of job k, and leaves
\* the blobs under k's contactId alone unless another job has that contactId.
NoInterference ==
  \A k \in Jobs :
    ops'[k] = ops[k] =>
      /\ req'[k] = req[k] /\ resp'[k] = resp[k] /\ pc'[k] = pc[k]
      /\ audio'[k] = audio[k] /\ upload'[k] = upload[k]
      /\ trans'[k] = trans[k] /\ snt'[k] = snt[k] /\ rm'[k] = rm[k]
      /\ hist'[k] = hist[k] /\ errs'[k] = errs[k]
      /\ { u \in unhandled' : u[1] = k } = { u \in unhandled : u[1] = k }
      /\ (\A j \in Jobs \ {k} : req'[j].contactId # req[k].contactId)
           => \A n \in BlobNames : n[1] = req[k].contactId => bucket'[n] = bucket[n]

\* C12: jobs that run concurrently keep to their own data (own contactId
\* prefix, own audio, transcript and sentiment, own tokens), and no step of
\* one job, a failure included, changes anything of another job or, when the
\* contactIds differ, the other job's blobs.
C12_JobsAreIndependent ==
  /\ [](\A j \in Jobs : OwnData(j))
  /\ [][NoInterference]_vars

\* Two jobs with different contactIds, one failed in transcription and the
\* other complete with its own three blobs.
C12_Witness ==
  \E j, k \in Jobs :
    /\ req[j].contactId # req[k].contactId
    /\ Ended(j, "stt", "err") /\ pc[j] = "failed"
    /\ Complete(k) /\ StoredAndDeleted(k)
    /\ bucket[AudioName(req[k].contactId)].by = k

(* ------------------------------------------------------------------ *)
(* C16                                                                  *)
(* ------------------------------------------------------------------ *)

\* Nothing makes a job wait for another job: the upload of a job whose
\* analysis is answered starts, and a write in flight can finish, whatever
\* the other jobs are doing.
NoExclusion ==
  \A j \in Jobs :
    /\ pc[j] = "analyze" =>
         ENABLED AnalyzeDone(j, [ok |-> TRUE, json |-> [documentSentiment |-> Score(AnalyzedText(j))]])
    /\ pc[j] = "wav" => ENABLED SaveAudioFinish(j)
    /\ trans[j] = "pending" => ENABLED SaveTransFinish(j)
    /\ snt[j] = "pending" => ENABLED SaveSntFinish(j)

\* A write that finishes replaces whatever blob is stored under its name.
LastWriterWins ==
  \A j \in Jobs : \A name \in {"wav", "txt", "json"} :
    (Ended(j, name, "pending") /\ \E i \in OpsOf(ops'[j], name) : ops'[j][i].st = "ok")
      => bucket'[Written(j, name)[1]] = [content |-> Written(j, name)[2], by |-> j]

\* C16: jobs with the same contactId are not serialized: no job's upload or
\* write waits for another job, and the blob under a name is the one whose
\* write finished last, so the blobs of one contactId can end up a mixed
\* group.
C16_SameContactRace ==
  /\ []NoExclusion
  /\ [][LastWriterWins]_vars

\* Every call of two jobs with the same contactId has been answered, and the
\* .wav stored is the one job's while the .txt or the .json is the other's.
C16_Witness ==
  \E j, k \in Jobs :
    /\ j # k /\ req[j].contactId = req[k].contactId
    /\ \A m \in {j, k} :
         pc[m] = "done" /\ rm[m] \in {"ok", "failed"}
         /\ trans[m] # "pending" /\ snt[m] # "pending"
    /\ bucket[AudioName(req[j].contactId)].by = j
    /\ \/ bucket[TransName(req[j].contactId)].by = k
       \/ bucket[SntName(req[j].contactId)].by = k

(* ------------------------------------------------------------------ *)
(* C18                                                                  *)
(* ------------------------------------------------------------------ *)

\* A call the handler's chain waits for has failed: the token request or
\* the fetch of admin.get, the transcription, the analysis, the audio write.
ChainFailure(j) ==
  \/ EarlyFailure(j)
  \/ Ended(j, "wav", "err")

\* A call the handler's chain does not wait for has failed: the transcript
\* write, the sentiment write, the token request of admin.remove, the DELETE.
DroppedFailure(j) ==
  \/ Ended(j, "txt", "err")
  \/ Ended(j, "json", "err")
  \/ Ended(j, "delete", "err")
  \/ (Started(j, "wav") /\ Ended(j, "token", "err"))

SntWriteStarts(j) == ~Started(j, "json") /\ OpsOf(ops'[j], "json") # {}

\* C19: the transcript write is started only after the audio write has
\* finished successfully; the sentiment write is started right after the
\* transcript write was started, while that one is still in flight.
C19_WriteOrder ==
  /\ [](\A j \in Jobs :
          /\ Started(j, "txt") => Ended(j, "wav", "ok")
          /\ \A i \in OpsOf(ops[j], "json") : i > 1 /\ ops[j][i - 1].op = "txt")
  /\ [][\A j \in Jobs : SntWriteStarts(j) => trans'[j] = "pending" /\ snt'[j] = "pending"]_vars

\* The two writes were in flight together and finished in either order: in
\* one job the sentiment is written while the transcript is in flight, in
\* another the transcript is written while the sentiment is in flight.
C19_Witness ==
  \E j, k \in Jobs :
    /\ snt[j] = "resolved" /\ trans[j] = "pending"
    /\ trans[k] = "resolved" /\ snt[k] = "pending"

(* ------------------------------------------------------------------ *)
(* C20                                                                  *)
(* ------------------------------------------------------------------ *)

\* C20: a job whose audio write failed starts neither the transcript write
\* nor the sentiment write, makes no second token request and no DELETE, and
\* has stored no blob.
C20_AudioFailureStopsJob ==
  \A j \in Jobs :
    Ended(j, "wav", "err") =>
      /\ ~Started(j, "txt") /\ ~Started(j, "json")
      /\ trans[j] = "none" /\ snt[j] = "none"
      /\ ~Started(j, "delete") /\ rm[j] = "none"
      /\ Cardinality(OpsOf(ops[j], "token")) = 1
      /\ upload[j].st = "rejected"
      /\ \A n \in BlobNames : bucket[n].by # j

\* The audio write of a job failed and the job ended there.
C20_Witness ==
  \E j \in Jobs : Ended(j, "wav", "err") /\ pc[j] = "failed" /\ errs[j]["_upload"] = 1

(* ------------------------------------------------------------------ *)
(* C17                                                                  *)
(* ------------------------------------------------------------------ *)

\* The last stage transition of job j.
LastStage(j) == IF hist[j] = << >> THEN "" ELSE hist[j][Len(hist[j])]

\* Job j is in a terminal state.
Terminal(j) == LastStage(j) \in {"DELETED", "FAILED"}

\* A job in a terminal state starts no remote operation.
QuietWhenTerminal == \A j \in Jobs : Terminal(j) => Len(ops'[j]) = Len(ops[j])

\* The stage of a job changes only in a step in which one of its pending
\* remote calls is answered: nothing cancels a call that does not answer.
NoTimeout ==
  \A j \in Jobs :
    (pc[j] # "idle" /\ <<pc'[j], rm'[j], trans'[j], snt'[j]>> # <<pc[j], rm[j], trans[j], snt[j]>>)
      => \E i \in 1..Len(ops[j]) : ops[j][i].st = "pending" /\ ops'[j][i].st # "pending"

\* A job that ended DELETED went through every stage; a job that ended
\* FAILED ended at the first call its chain saw fail, the last one it waited
\* for.
TerminalShape(j) ==
  /\ LastStage(j) = "DELETED" => hist[j] = Stages
  /\ LastStage(j) = "FAILED" =>
       /\ StageLog(j)[Len(StageLog(j))].st = "err"
       /\ \A i \in 1..(Len(StageLog(j)) - 1) : StageLog(j)[i].st = "ok"

Returned(fn) == unit.fn = fn /\ unit.st # "called"

\* C13: for every file-fetch response with a success status whose body has a
\* files object, whatever that object contains, _getFile returns that object
\* unchanged; for every other response it fails.
C13_GetFileReturnsFiles ==
  Returned("_getFile") =>
    IF unit.r.ok /\ "files" \in DOMAIN unit.r.json
    THEN unit.st = "ok" /\ unit.value = unit.r.json.files
    ELSE unit.st = "err"

(* ------------------------------------------------------------------ *)
(* C14: _stt and the transcript path                                    *)
(* ------------------------------------------------------------------ *)

\* The strings at results[0].alternatives[0].transcript of a body: one string
\* when every link of the path exists, none otherwise.
TranscriptAt(json) ==
  IF "results" \notin DOMAIN json THEN {}
  ELSE IF json.results = << >> THEN {}
  ELSE IF "alternatives" \notin DOMAIN json.results[1] THEN {}
  ELSE IF json.results[1].alternatives = << >> THEN {}
  ELSE IF "transcript" \notin DOMAIN json.results[1].alternatives[1] THEN {}
  ELSE { json.results[1].alternatives[1].transcript }

\* C14: _stt returns the string at results[0].alternatives[0].transcript of a
\* success response when the path exists and the string is not empty, and
\* fails in every other case; it never succeeds with an empty string.
C14_TranscriptOrFailure ==
  Returned("_stt") =>
    /\ IF unit.r.ok /\ TranscriptAt(unit.r.json) \notin { {}, {""} }
       THEN unit.st = "ok" /\ unit.value \in TranscriptAt(unit.r.json)
       ELSE unit.st = "err"
    /\ unit.st = "ok" => unit.value # ""

\* A success response whose transcript is the empty string has been refused.
C14_Witness ==
  /\ Returned("_stt")
  /\ unit.r.ok
  /\ TranscriptAt(unit.r.json) = {""}
  /\ unit.st = "err"

(* ------------------------------------------------------------------ *)
(* C15: _getToken and its two fields                                    *)
(* ------------------------------------------------------------------ *)

\* The body carries a value for the field.
Contains(json, f) == f \in DOMAIN json /\ json[f] # ""

\* C15: _getToken succeeds exactly when the response has a success status and
\* its body carries both access_token and resource_server_base_uri, and then
\* returns those very values; a body that lacks either one makes it fail.
C15_TokenNeedsBothFields ==
  Returned("_getToken") =>
    /\ unit.st = "ok" <=>
         /\ unit.r.ok
         /\ Contains(unit.r.json, "access_token")
         /\ Contains(unit.r.json, "resource_server_base_uri")
    /\ unit.st = "ok" =>
         /\ unit.value.access_token = unit.r.json.access_token
         /\ unit.value.resource_server_base_uri = unit.r.json.resource_server_base_uri
    /\ unit.st \in {"ok", "err"}

\* A success response that carries the token but no base uri has been refused.
C15_Witness ==
  /\ Returned("_getToken")
  /\ unit.r.ok
  /\ Contains(unit.r.json, "access_token")
  /\ "resource_server_base_uri" \notin DOMAIN unit.r.json
  /\ unit.st = "err"

====
